---- MODULE Spec2Model ----
(***************************************************************************)
(* Currency unit conversion of luxtensor-core (currency.rs): LTS is the    *)
(* atomic unit, MDT the display unit, 1 MDT = 10^18 LTS.                    *)
(*                                                                         *)
(* u128 values do not fit the integers of the model checker, so a u128 is  *)
(* a sequence of decimal digits, least significant digit first, without    *)
(* high-order zeros (zero is the empty sequence).  Arithmetic is exact on   *)
(* these sequences and the 128-bit width is enforced by comparing with     *)
(* U128_MAX wherever the code uses a checked operation.                     *)
(*                                                                         *)
(* A string is a sequence of characters; a character is a one-character    *)
(* string, except "U00E9" which stands for the two-byte code point U+00E9. *)
(***************************************************************************)
EXTENDS Integers, Sequences, FiniteSets

(***************************************************************************)
(* Bounds of the model.                                                    *)
(***************************************************************************)
MaxCalls == 2
MaxTextLen == 3
MaxFracLen == 19
MaxWhole == 2

(***************************************************************************)
(* Unbounded natural-number arithmetic on digit sequences.                 *)
(***************************************************************************)
RECURSIVE Norm(_)
Norm(a) ==
    IF a = <<>> THEN <<>>
    ELSE IF a[Len(a)] = 0 THEN Norm(SubSeq(a, 1, Len(a) - 1))
    ELSE a

Rev(s) == [i \in 1..Len(s) |-> s[Len(s) + 1 - i]]

RECURSIVE Rep(_, _)
Rep(c, k) == IF k <= 0 THEN <<>> ELSE <<c>> \o Rep(c, k - 1)

RECURSIVE FromInt(_)
FromInt(n) == IF n = 0 THEN <<>> ELSE <<n % 10>> \o FromInt(n \div 10)

DigitAt(a, i) == IF i <= Len(a) THEN a[i] ELSE 0

RECURSIVE AddFrom(_, _, _, _)
AddFrom(a, b, i, carry) ==
    IF i > Len(a) /\ i > Len(b)
    THEN IF carry = 0 THEN <<>> ELSE <<carry>>
    ELSE LET s == DigitAt(a, i) + DigitAt(b, i) + carry
         IN  <<s % 10>> \o AddFrom(a, b, i + 1, s \div 10)

BigAdd(a, b) == Norm(AddFrom(a, b, 1, 0))

RECURSIVE SubFrom(_, _, _, _)
SubFrom(a, b, i, borrow) ==
    IF i > Len(a) THEN <<>>
    ELSE LET d == DigitAt(a, i) - DigitAt(b, i) - borrow
         IN  IF d < 0
             THEN <<d + 10>> \o SubFrom(a, b, i + 1, 1)
             ELSE <<d>> \o SubFrom(a, b, i + 1, 0)

\* a - b for a >= b
BigSub(a, b) == Norm(SubFrom(a, b, 1, 0))

RECURSIVE CmpFrom(_, _, _)
CmpFrom(a, b, i) ==
    IF i = 0 THEN 0
    ELSE IF a[i] < b[i] THEN -1
    ELSE IF a[i] > b[i] THEN 1
    ELSE CmpFrom(a, b, i - 1)

\* -1, 0, 1 as a < b, a = b, a > b
BigCmp(a, b) ==
    IF Len(a) < Len(b) THEN -1
    ELSE IF Len(a) > Len(b) THEN 1
    ELSE CmpFrom(a, b, Len(a))

BigLe(a, b) == BigCmp(a, b) <= 0
BigLt(a, b) == BigCmp(a, b) < 0

\* the sum of a[i] * b[k + 1 - i] over the i from lo to hi: column k of the
\* long multiplication
RECURSIVE Column(_, _, _, _, _)
Column(a, b, k, lo, hi) ==
    IF lo > hi THEN 0
    ELSE a[lo] * b[k + 1 - lo] + Column(a, b, k, lo + 1, hi)

Max2(x, y) == IF x > y THEN x ELSE y
Min2(x, y) == IF x < y THEN x ELSE y

RECURSIVE MulFrom(_, _, _, _)
MulFrom(a, b, k, carry) ==
    IF k > Len(a) + Len(b) - 1
    THEN FromInt(carry)
    ELSE LET s == Column(a, b, k, Max2(1, k + 1 - Len(b)), Min2(Len(a), k))
                      + carry
         IN  <<s % 10>> \o MulFrom(a, b, k + 1, s \div 10)

BigMul(a, b) ==
    IF a = <<>> \/ b = <<>> THEN <<>> ELSE Norm(MulFrom(a, b, 1, 0))

\* b > 0 taken from r as often as it goes: n counts the times
RECURSIVE TakeOut(_, _, _)
TakeOut(r, b, n) ==
    IF BigLt(r, b) THEN [n |-> n, r |-> r]
    ELSE TakeOut(BigSub(r, b), b, n + 1)

\* long division of a by b > 0: digit i of a is brought down to the
\* remainder r of the digits above it, q holds the quotient digits found so
\* far (least significant first)
RECURSIVE DivFrom(_, _, _, _, _)
DivFrom(a, b, i, q, r) ==
    IF i = 0 THEN [q |-> Norm(q), r |-> r]
    ELSE LET t == TakeOut(Norm(<<a[i]>> \o r), b, 0)
         IN  IF t.n = 0
             THEN DivFrom(a, b, i - 1, <<0>> \o q, t.r)
             ELSE DivFrom(a, b, i - 1, <<t.n>> \o q, t.r)

\* quotient and remainder of a by b > 0; the digits of a above the length
\* of b are below b and start as the remainder
DivMod(a, b) ==
    IF Len(a) < Len(b) THEN [q |-> <<>>, r |-> a]
    ELSE DivFrom(a, b, Len(a) - Len(b) + 1, <<>>,
                 Norm(SubSeq(a, Len(a) - Len(b) + 2, Len(a))))

BigDiv(a, b) == DivMod(a, b).q
BigMod(a, b) == DivMod(a, b).r

(***************************************************************************)
(* Constants of currency.rs and the width of u128.                         *)
(***************************************************************************)
\* a number written with its most significant digit first
Lit(digits) == Norm(Rev(digits))

U128_MAX ==
    Lit(<<3,4,0, 2,8,2, 3,6,6, 9,2,0, 9,3,8, 4,6,3, 4,6,3,
          3,7,4, 6,0,7, 4,3,1, 7,6,8, 2,1,1, 4,5,5>>)

LTS_PER_MDT == Lit(<<1, 0,0,0, 0,0,0, 0,0,0, 0,0,0, 0,0,0, 0,0,0>>)

LTS_PER_KMDT ==
    Lit(<<1, 0,0,0, 0,0,0, 0,0,0, 0,0,0, 0,0,0, 0,0,0, 0,0,0>>)

LTS_PER_MMDT ==
    Lit(<<1, 0,0,0, 0,0,0, 0,0,0, 0,0,0, 0,0,0, 0,0,0, 0,0,0, 0,0,0>>)

MDT_DECIMALS == 18

(***************************************************************************)
(* Results: Option<u128> and Result<u128, String>.                         *)
(***************************************************************************)
Some(v) == [tag |-> "Some", v |-> v, msg |-> ""]
None == [tag |-> "None", v |-> <<>>, msg |-> ""]
Ok(v) == [tag |-> "Ok", v |-> v, msg |-> ""]
Err(m) == [tag |-> "Err", v |-> <<>>, msg |-> m]

checked_mul(a, b) ==
    LET p == BigMul(a, b) IN IF BigLe(p, U128_MAX) THEN Some(p) ELSE None

\* an addition that wraps around the width instead of reporting it
checked_add_wrapping(a, b) ==
    LET s == BigAdd(a, b)
    IN  IF BigLe(s, U128_MAX) THEN Some(s)
        ELSE Some(BigSub(s, BigAdd(U128_MAX, <<1>>)))

checked_add(a, b) ==
    LET s == BigAdd(a, b) IN IF BigLe(s, U128_MAX) THEN Some(s) ELSE None

(***************************************************************************)
(* Strings and the standard conversions the code calls.                    *)
(***************************************************************************)
DigitChars == <<"0", "1", "2", "3", "4", "5", "6", "7", "8", "9">>

IsDigit(c) == \E d \in 0..9 : DigitChars[d + 1] = c

DigitVal(c) == CHOOSE d \in 0..9 : DigitChars[d + 1] = c

\* length of a character in bytes (UTF-8)
Utf8Len(c) == IF c = "U00E9" THEN 2 ELSE 1

\* str::len: the length of a string in bytes
RECURSIVE StrLen(_)
StrLen(s) == IF s = <<>> THEN 0 ELSE Utf8Len(Head(s)) + StrLen(Tail(s))

\* Display of u128: decimal digits, most significant first, "0" for zero
DisplayU128(n) ==
    IF n = <<>> THEN <<"0">>
    ELSE [i \in 1..Len(n) |-> DigitChars[n[Len(n) + 1 - i] + 1]]

\* a rendering that leaves the padding out
PadZeroLeft_none(s, width) == s

\* the {:0width$} format of a number: zeros on the left up to width, never
\* a truncation
PadZeroLeft(s, width) ==
    IF Len(s) >= width THEN s ELSE Rep("0", width - Len(s)) \o s

\* the digit loop of u128::from_str on the characters after the sign: the
\* loop stops at the first character that is no digit (InvalidDigit) or at
\* the first digit that takes the value read so far above the width
\* (PosOverflow), whichever comes first
ParseDigits(s) ==
    LET bad   == {i \in 1..Len(s) : ~IsDigit(s[i])}
        n     == IF bad = {} THEN Len(s)
                 ELSE (CHOOSE i \in bad : \A j \in bad : i <= j) - 1
        value == Norm([i \in 1..n |-> DigitVal(s[n + 1 - i])])
    IN  IF ~BigLe(value, U128_MAX) THEN Err("PosOverflow")
        ELSE IF bad # {} THEN Err("InvalidDigit")
        ELSE Ok(value)

\* str::parse::<u128>: an optional '+' and then digits
ParseU128(s) ==
    IF s = <<>> THEN Err("Empty")
    ELSE IF s = <<"+">> \/ s = <<"-">> THEN Err("InvalidDigit")
    ELSE IF Head(s) = "+" THEN ParseDigits(Tail(s))
    ELSE ParseDigits(s)

\* str::split(sep).collect(): the segments between the separators
RECURSIVE SplitFrom(_, _, _)
SplitFrom(s, sep, part) ==
    IF s = <<>> THEN <<part>>
    ELSE IF Head(s) = sep THEN <<part>> \o SplitFrom(Tail(s), sep, <<>>)
    ELSE SplitFrom(Tail(s), sep, Append(part, Head(s)))

Split(s, sep) == SplitFrom(s, sep, <<>>)

\* a padding loop that puts the zeros in front
PadZeroRight_front(s, width) ==
    IF StrLen(s) < width THEN Rep("0", width - StrLen(s)) \o s ELSE s

\* the padding loop of parse_mdt_to_lts
RECURSIVE PadZeroRight(_, _)
PadZeroRight(s, width) ==
    IF StrLen(s) < width THEN PadZeroRight(Append(s, "0"), width) ELSE s

(***************************************************************************)
(* The operations of currency.rs.                                          *)
(***************************************************************************)
\* the superseded conversion that clamps to the width
mdt_to_lts_saturating(mdt) ==
    LET p == BigMul(mdt, LTS_PER_MDT)
    IN  IF BigLe(p, U128_MAX) THEN Some(p) ELSE Some(U128_MAX)

mdt_to_lts(mdt) == checked_mul(mdt, LTS_PER_MDT)

\* a conversion that rounds to the nearest display unit
lts_to_mdt_rounding(lts) ==
    BigDiv(BigAdd(lts, Lit(<<5, 0,0,0, 0,0,0, 0,0,0, 0,0,0, 0,0,0, 0,0>>)),
           LTS_PER_MDT)

\* a conversion that divides by the wrong denomination
lts_to_mdt_kilo(lts) == BigDiv(lts, LTS_PER_KMDT)

lts_to_mdt(lts) == BigDiv(lts, LTS_PER_MDT)

format_lts_as_mdt(lts) ==
    LET mdt_whole      == BigDiv(lts, LTS_PER_MDT)
        lts_fractional == BigMod(lts, LTS_PER_MDT)
    IN  DisplayU128(mdt_whole) \o <<".">>
            \o PadZeroLeft(DisplayU128(lts_fractional), MDT_DECIMALS)
            \o <<" ", "M", "D", "T">>

format_lts(lts) == DisplayU128(lts) \o <<" ", "L", "T", "S">>

OverflowMsg == "Amount too large - would overflow"

parse_mdt_to_lts(mdt_str) ==
    LET parts == Split(mdt_str, ".")
    IN  IF Len(parts) = 1 THEN
            LET whole == ParseU128(parts[1])
            IN  IF whole.tag = "Err" THEN Err("Invalid MDT amount")
                ELSE LET r == mdt_to_lts(whole.v)
                     IN  IF r.tag = "None" THEN Err(OverflowMsg) ELSE Ok(r.v)
        ELSE IF Len(parts) = 2 THEN
            LET whole == ParseU128(parts[1])
            IN  IF whole.tag = "Err" THEN Err("Invalid MDT amount")
                ELSE IF StrLen(parts[2]) > MDT_DECIMALS
                THEN Err("Too many decimal places (max 18)")
                ELSE
                LET frac_str   == PadZeroRight(parts[2], MDT_DECIMALS)
                    fractional == ParseU128(frac_str)
                IN  IF fractional.tag = "Err"
                    THEN Err("Invalid fractional amount")
                    ELSE
                    LET whole_lts == mdt_to_lts(whole.v)
                    IN  IF whole_lts.tag = "None" THEN Err(OverflowMsg)
                        ELSE LET sum == checked_add(whole_lts.v, fractional.v)
                             IN  IF sum.tag = "None" THEN Err(OverflowMsg)
                                 ELSE Ok(sum.v)
        ELSE Err("Invalid MDT format")

(***************************************************************************)
(* The inputs of the model.                                                *)
(***************************************************************************)
\* the largest display amount whose atomic amount fits 128 bits
MaxWholeMdt == Lit(<<3,4,0, 2,8,2, 3,6,6, 9,2,0, 9,3,8, 4,6,3, 4,6,3>>)

WholeVals ==
    {FromInt(n) : n \in 0..MaxWhole}
        \cup {FromInt(10), FromInt(999), BigSub(MaxWholeMdt, <<1>>),
              MaxWholeMdt}

FracVals ==
    {<<>>, <<1>>, FromInt(42),
     Lit(<<5, 0,0,0, 0,0,0, 0,0,0, 0,0,0, 0,0,0, 0,0>>),
     Lit(<<1,0,0, 0,0,0, 0,0,0, 0,0,0, 0,0,0, 0,0>>),
     Lit(<<3,7,4, 6,0,7, 4,3,1, 7,6,8, 2,1,1, 4,5,5>>),
     BigSub(LTS_PER_MDT, <<1>>)}

\* the u128 values handed to the operations
Amounts ==
    {a \in {BigAdd(BigMul(w, LTS_PER_MDT), f) : w \in WholeVals, f \in FracVals}
        : BigLe(a, U128_MAX)}
        \cup WholeVals
        \cup {BigAdd(MaxWholeMdt, <<1>>), LTS_PER_KMDT, LTS_PER_MMDT,
              BigSub(U128_MAX, <<1>>), U128_MAX}

Alphabet == {"0", "1", "5", "+", "-", ".", "a"}

RECURSIVE SeqsUpTo(_, _)
SeqsUpTo(S, n) ==
    IF n = 0 THEN {<<>>}
    ELSE LET shorter == SeqsUpTo(S, n - 1)
         IN  shorter \cup {Append(t, c) : t \in shorter, c \in S}

WholeTexts ==
    {DisplayU128(w) : w \in WholeVals}
        \cup {DisplayU128(BigAdd(MaxWholeMdt, <<1>>)), DisplayU128(U128_MAX),
              DisplayU128(BigAdd(U128_MAX, <<1>>)),
              <<>>, <<"0", "0", "7">>, <<"+", "1">>, <<"-", "1">>,
              <<"1", " ">>, <<"i", "n", "v", "a", "l", "i", "d">>}

FracTexts ==
    UNION {{Rep("0", k), Rep("9", k),
            Rep("0", k - 1) \o <<"1">>,
            <<"5">> \o Rep("0", k - 1),
            <<"+">> \o Rep("5", k - 1),
            <<"-">> \o Rep("5", k - 1),
            Rep("1", k - 1) \o <<"a">>,
            <<"1">> \o Rep("U00E9", k - 1)} : k \in 1..MaxFracLen}
        \cup {<<>>, <<"1", ".", "1">>,
              DisplayU128(Lit(<<3,7,4, 6,0,7, 4,3,1, 7,6,8, 2,1,1, 4,5,5>>)),
              DisplayU128(Lit(<<3,7,4, 6,0,7, 4,3,1, 7,6,8, 2,1,1, 4,5,6>>))}

FewWholeTexts ==
    {<<"0">>, <<"1">>, DisplayU128(MaxWholeMdt)}

FewFracTexts ==
    {<<>>, <<"5">>, <<"+", "5">>, <<"a">>,
     <<"1", "2", "3", "4", "5", "6", "7", "8", "9", "0",
       "1", "2", "3", "4", "5", "6", "7", "8", "9">>}

\* the strings handed to parse_mdt_to_lts
Texts ==
    SeqsUpTo(Alphabet, MaxTextLen)
        \cup WholeTexts
        \cup {w \o <<".">> \o f : w \in WholeTexts, f \in FewFracTexts}
        \cup {w \o <<".">> \o f : w \in FewWholeTexts, f \in FracTexts}

(***************************************************************************)
(* A caller holds a value cur, a u128 or a string, and calls an operation  *)
(* on it; calls records the calls made, and a value an operation returns   *)
(* is the value the caller holds next.                                     *)
(***************************************************************************)
VARIABLES cur, calls

vars == <<cur, calls>>

U(n) == [kind |-> "u128", v |-> n]
S(t) == [kind |-> "str", v |-> t]

Call(op, param, ret) == [op |-> op, param |-> param, ret |-> ret]

Init ==
    /\ \/ \E a \in Amounts : cur = U(a)
       \/ \E t \in Texts : cur = S(t)
    /\ calls = <<>>

CallMdtToLts ==
    /\ cur.kind = "u128"
    /\ Len(calls) < MaxCalls
    /\ LET r == mdt_to_lts(cur.v)
       IN  /\ calls' = Append(calls, Call("mdt_to_lts", cur.v, r))
           /\ cur' = IF r.tag = "Some" THEN U(r.v) ELSE cur

CallLtsToMdt ==
    /\ cur.kind = "u128"
    /\ Len(calls) < MaxCalls
    /\ LET r == lts_to_mdt(cur.v)
       IN  /\ calls' = Append(calls, Call("lts_to_mdt", cur.v, r))
           /\ cur' = U(r)

CallFormatLtsAsMdt ==
    /\ cur.kind = "u128"
    /\ Len(calls) < MaxCalls
    /\ LET r == format_lts_as_mdt(cur.v)
       IN  /\ calls' = Append(calls, Call("format_lts_as_mdt", cur.v, r))
           /\ cur' = S(r)

CallFormatLts ==
    /\ cur.kind = "u128"
    /\ Len(calls) < MaxCalls
    /\ LET r == format_lts(cur.v)
       IN  /\ calls' = Append(calls, Call("format_lts", cur.v, r))
           /\ cur' = S(r)

CallParseMdtToLts ==
    /\ cur.kind = "str"
    /\ Len(calls) < MaxCalls
    /\ LET r == parse_mdt_to_lts(cur.v)
       IN  /\ calls' = Append(calls, Call("parse_mdt_to_lts", cur.v, r))
           /\ cur' = IF r.tag = "Ok" THEN U(r.v) ELSE cur

Next ==
    \/ CallMdtToLts
    \/ CallLtsToMdt
    \/ CallFormatLtsAsMdt
    \/ CallFormatLts
    \/ CallParseMdtToLts

Spec == Init /\ [][Next]_vars

(***************************************************************************)
(* Vocabulary of the properties.                                           *)
(***************************************************************************)
CallsOf(op) == {i \in 1..Len(calls) : calls[i].op = op}

\* call i + 1 is op2 on the value that call i, an op1, returned
Chained(i, op1, op2) ==
    /\ i + 1 <= Len(calls)
    /\ calls[i].op = op1
    /\ calls[i + 1].op = op2

\* 10^k
Pow10(k) == Rep(0, k) \o <<1>>

IsDigits(s) == \A i \in 1..Len(s) : IsDigit(s[i])

\* the number a string of digits denotes
DecValue(s) == Norm([i \in 1..Len(s) |-> DigitVal(s[Len(s) + 1 - i])])

Dots(t) == {j \in 1..Len(t) : t[j] = "."}

HasFrac(t) == Cardinality(Dots(t)) = 1

TheDot(t) == CHOOSE j \in Dots(t) : TRUE

\* the segments of a string with at most one '.'
WholeSeg(t) == IF Dots(t) = {} THEN t ELSE SubSeq(t, 1, TheDot(t) - 1)
FracSeg(t) == IF Dots(t) = {} THEN <<>> ELSE SubSeq(t, TheDot(t) + 1, Len(t))

ExcessMsg == "Too many decimal places (max 18)"

MalformedMsgs ==
    {"Invalid MDT amount", "Invalid fractional amount", "Invalid MDT format"}

UnitSuffix == <<" ", "M", "D", "T">>

\* a rendered amount without its last four characters
WithoutSuffix(s) == SubSeq(s, 1, Len(s) - 4)

(***************************************************************************)
(* Properties of the conversions between amounts.                          *)
(***************************************************************************)

\* C3: mdt_to_lts(d) returns the exact product d * 10^18 whenever the
\* product is at most 2^128 - 1 and None whenever it is above, never a
\* wrapped or clamped value; mdt_to_lts(0) = 0 and mdt_to_lts(u128::MAX) is
\* None.
C3_MdtToLtsExactOrNone ==
    \A i \in CallsOf("mdt_to_lts") :
        LET d == calls[i].param
            p == IF d = <<>> THEN <<>> ELSE Rep(0, 18) \o d
        IN  /\ BigLe(p, U128_MAX) => calls[i].ret = Some(p)
            /\ ~BigLe(p, U128_MAX) => calls[i].ret = None
            /\ d = <<>> => calls[i].ret = Some(<<>>)
            /\ d = U128_MAX => calls[i].ret = None

\* a product that fits, followed by a product that does not
C3_Witness ==
    /\ Len(calls) = 2
    /\ calls[1].op = "mdt_to_lts"
    /\ calls[1].ret.tag = "Some"
    /\ calls[1].ret.v # <<>>
    /\ calls[2].op = "mdt_to_lts"
    /\ calls[2].ret = None

\* C4: for every display amount d whose product d * 10^18 fits 128 bits,
\* lts_to_mdt(mdt_to_lts(d)) = d.
C4_WholeRoundTrip ==
    \A i \in 1..Len(calls) :
        (/\ Chained(i, "mdt_to_lts", "lts_to_mdt")
         /\ BigLe(BigMul(calls[i].param, Pow10(18)), U128_MAX))
            => /\ calls[i].ret.tag = "Some"
               /\ calls[i + 1].param = calls[i].ret.v
               /\ calls[i + 1].ret = calls[i].param

\* the largest display amount that fits went there and back
C4_Witness ==
    /\ Chained(1, "mdt_to_lts", "lts_to_mdt")
    /\ calls[1].param = MaxWholeMdt
    /\ calls[1].ret.tag = "Some"

\* C9: lts_to_mdt(a) is floor(a / 10^18) and cannot fail: the result m
\* satisfies m * 10^18 <= a < (m + 1) * 10^18, a remainder is dropped and
\* never rounded up; lts_to_mdt(1_500_000_000_000_000_000) = 1.
C9_LtsToMdtFloor ==
    \A i \in CallsOf("lts_to_mdt") :
        LET a == calls[i].param
            m == calls[i].ret
        IN  /\ BigLe(BigMul(m, Pow10(18)), a)
            /\ BigLt(a, BigMul(BigAdd(m, <<1>>), Pow10(18)))
            /\ BigLe(m, U128_MAX)
            /\ a = BigAdd(Pow10(18), BigMul(<<5>>, Pow10(17))) => m = <<1>>

\* an amount one atomic unit below two display units became one display unit
C9_Witness ==
    \E i \in CallsOf("lts_to_mdt") :
        /\ calls[i].param = BigSub(BigMul(<<2>>, Pow10(18)), <<1>>)
        /\ calls[i].ret = <<1>>

\* C8: format_lts_as_mdt(a) is "<w>.<f> MDT" with w the decimal rendering of
\* a / 10^18 and f the rendering of a % 10^18 padded with '0' on the left to
\* exactly 18 characters, so that w * 10^18 + f = a (the amount can be read
\* back from the string, hence two amounts never share a string); there is
\* no failure outcome.
C8_FormatExact ==
    \A i \in CallsOf("format_lts_as_mdt") :
        LET a == calls[i].param
            s == calls[i].ret
            w == WholeSeg(s)
            f == SubSeq(FracSeg(s), 1, 18)
        IN  /\ HasFrac(s)
            /\ Len(s) = Len(w) + 1 + 18 + 4
            /\ SubSeq(s, Len(s) - 3, Len(s)) = UnitSuffix
            /\ w # <<>>
            /\ IsDigits(w)
            /\ w[1] = "0" => w = <<"0">>
            /\ IsDigits(f)
            /\ BigLt(DecValue(f), Pow10(18))
            /\ BigAdd(BigMul(DecValue(w), Pow10(18)), DecValue(f)) = a

\* an amount whose remainder needs sixteen zeros in front was rendered
C8_Witness ==
    \E i \in CallsOf("format_lts_as_mdt") :
        /\ calls[i].param = BigAdd(Pow10(18), FromInt(42))
        /\ calls[i].ret = <<"1", ".">> \o Rep("0", 16) \o <<"4", "2">>
                              \o UnitSuffix

(***************************************************************************)
(* Properties of parse_mdt_to_lts.                                         *)
(***************************************************************************)

\* the atomic amount that "W" or "W.F" denotes: w * 10^18 + f * 10^(18 - k)
\* for a fractional segment of k <= 18 digits, f = 0 without one
Denoted(t) ==
    BigAdd(BigMul(DecValue(WholeSeg(t)), Pow10(18)),
           BigMul(DecValue(FracSeg(t)), Pow10(18 - Len(FracSeg(t)))))

\* C5: for every input "W" or "W.F" with W a non-empty digit string of
\* value w, F a digit string of 1 <= k <= 18 digits of value f, and
\* w * 10^18 + f * 10^(18 - k) at most 2^128 - 1, parse_mdt_to_lts returns
\* exactly that amount, without rounding or truncation: "1.5" gives
\* 1_500_000_000_000_000_000 and "1.000000000000000001" gives
\* 1_000_000_000_000_000_001.
C5_ParseExact ==
    \A i \in CallsOf("parse_mdt_to_lts") :
        LET t == calls[i].param
        IN  /\ (/\ Cardinality(Dots(t)) <= 1
                /\ WholeSeg(t) # <<>>
                /\ IsDigits(WholeSeg(t))
                /\ IsDigits(FracSeg(t))
                /\ HasFrac(t) => Len(FracSeg(t)) \in 1..18
                /\ BigLe(Denoted(t), U128_MAX))
                   => calls[i].ret = Ok(Denoted(t))
            /\ t = <<"1", ".", "5">>
                   => calls[i].ret = Ok(BigMul(FromInt(15), Pow10(17)))
            /\ t = <<"1", ".">> \o Rep("0", 17) \o <<"1">>
                   => calls[i].ret = Ok(BigAdd(Pow10(18), <<1>>))

\* the full precision of eighteen fractional digits was parsed
C5_Witness ==
    \E i \in CallsOf("parse_mdt_to_lts") :
        /\ calls[i].param = <<"1", ".">> \o Rep("0", 17) \o <<"1">>
        /\ calls[i].ret = Ok(BigAdd(Pow10(18), <<1>>))

\* C6: for every input whose whole segment is a digit string of value
\* w <= 2^128 - 1 and whose fractional segment, if any, is a digit string of
\* at most 18 digits of padded value r: if w * 10^18 or w * 10^18 + r is
\* above 2^128 - 1 the result is the overflow error, never a wrapped or
\* clamped number, and a success value is returned only when the exact sum
\* is at most 2^128 - 1.
C6_ParseOverflow ==
    \A i \in CallsOf("parse_mdt_to_lts") :
        LET t == calls[i].param
        IN  (/\ Cardinality(Dots(t)) <= 1
             /\ WholeSeg(t) # <<>>
             /\ IsDigits(WholeSeg(t))
             /\ BigLe(DecValue(WholeSeg(t)), U128_MAX)
             /\ IsDigits(FracSeg(t))
             /\ Len(FracSeg(t)) <= 18)
                => /\ ~BigLe(BigMul(DecValue(WholeSeg(t)), Pow10(18)), U128_MAX)
                          => calls[i].ret = Err(OverflowMsg)
                   /\ ~BigLe(Denoted(t), U128_MAX)
                          => calls[i].ret = Err(OverflowMsg)
                   /\ calls[i].ret.tag = "Ok"
                          => /\ BigLe(Denoted(t), U128_MAX)
                             /\ calls[i].ret.v = Denoted(t)

\* the sum went one above the width at the addition step
C6_Witness ==
    \E i \in CallsOf("parse_mdt_to_lts") :
        /\ calls[i].param =
               DisplayU128(MaxWholeMdt) \o <<".">>
                   \o <<"3", "7", "4", "6", "0", "7", "4", "3", "1",
                        "7", "6", "8", "2", "1", "1", "4", "5", "6">>
        /\ calls[i].ret = Err(OverflowMsg)

\* C1 as stated: for every atomic amount a, parse_mdt_to_lts applied to
\* format_lts_as_mdt(a) returns the success value a.
C1_TextRoundTrip ==
    \A i \in 1..Len(calls) :
        (/\ Chained(i, "format_lts_as_mdt", "parse_mdt_to_lts")
         /\ calls[i + 1].param = calls[i].ret)
            => calls[i + 1].ret = Ok(calls[i].param)

\* C1 as amended: the rendered string ends in the unit suffix " MDT";
\* parse_mdt_to_lts applied to the rendered string as it is returns the
\* excess-precision error, and applied to the rendered string without that
\* suffix it returns the success value a.
C1_TextRoundTripWithoutSuffix ==
    \A i \in CallsOf("format_lts_as_mdt") :
        /\ SubSeq(calls[i].ret, Len(calls[i].ret) - 3, Len(calls[i].ret))
               = UnitSuffix
        /\ parse_mdt_to_lts(WithoutSuffix(calls[i].ret)) = Ok(calls[i].param)
        /\ Chained(i, "format_lts_as_mdt", "parse_mdt_to_lts")
               => /\ calls[i + 1].param = calls[i].ret
                  /\ calls[i + 1].ret = Err(ExcessMsg)

\* the largest amount was rendered and the rendering parsed
C1_Witness ==
    /\ Chained(1, "format_lts_as_mdt", "parse_mdt_to_lts")
    /\ calls[1].param = U128_MAX
    /\ calls[2].param = calls[1].ret

\* a segment that starts with '+' or '-'
SignedSeg(seg) == seg # <<>> /\ seg[1] \in {"+", "-"}

\* C2: parse_mdt_to_lts succeeds only on unsigned input: every string whose
\* whole or fractional segment has a leading '+' or '-', such as "+1" or
\* "1.+5", yields an error and never a numeric result.
C2_SignedRejected ==
    \A i \in CallsOf("parse_mdt_to_lts") :
        LET t == calls[i].param
        IN  (/\ Cardinality(Dots(t)) <= 1
             /\ SignedSeg(WholeSeg(t)) \/ SignedSeg(FracSeg(t)))
                => calls[i].ret.tag = "Err"

\* C7: the excess-precision error is signalled only when the fractional
\* segment consists of digits and has more than 18 of them; a fractional
\* segment with a character that is no digit is signalled as malformed
\* input whatever its length; a fractional segment of more than 18 digits
\* never gives a success value.
C7_ExcessPrecisionOnlyForDigits ==
    \A i \in CallsOf("parse_mdt_to_lts") :
        LET t == calls[i].param
        IN  /\ calls[i].ret = Err(ExcessMsg)
                   => /\ HasFrac(t)
                      /\ IsDigits(FracSeg(t))
                      /\ Len(FracSeg(t)) > 18
            /\ (HasFrac(t) /\ ~IsDigits(FracSeg(t)))
                   => /\ calls[i].ret.tag = "Err"
                      /\ calls[i].ret.msg \in MalformedMsgs
            /\ (HasFrac(t) /\ IsDigits(FracSeg(t)) /\ Len(FracSeg(t)) > 18)
                   => calls[i].ret.tag = "Err"

\* "<digits>" or "<digits>.<digits>", each segment a non-empty digit string
WellFormed(t) ==
    /\ Cardinality(Dots(t)) <= 1
    /\ WholeSeg(t) # <<>>
    /\ IsDigits(WholeSeg(t))
    /\ HasFrac(t) => FracSeg(t) # <<>> /\ IsDigits(FracSeg(t))

\* C10: parse_mdt_to_lts reports an error, never a numeric result, for every
\* string that is not "<digits>" or "<digits>.<digits>": an empty whole
\* segment (".5", ""), an empty fractional segment after the separator
\* ("1."), more than one '.' ("1.1.1").
C10_MalformedRejected ==
    \A i \in CallsOf("parse_mdt_to_lts") :
        ~WellFormed(calls[i].param) => calls[i].ret.tag = "Err"

====
